---- MODULE Spec2Model ----
(***************************************************************************)
(* Point service of hhplus-tdd-nest: LockManager (a per-user chain of      *)
(* promises) and PointService.chargePoint / usePoint running their         *)
(* read-validate-write-record section under it.                            *)
(*                                                                         *)
(* A "call" is one invocation of a method of PointService.  Calls are      *)
(* numbered in the order in which they are issued, so call c owns the      *)
(* lock promise created by its LockManager.acquire, also named c.  User    *)
(* ids are numbered in the order in which they are first used.             *)
(***************************************************************************)
EXTENDS Integers, Sequences, FiniteSets

\* ---------------------------------------------------------------- bounds
NumCalls == 3
NumKeys == 2
\* Threads the host runs calls on at the same time.
MaxThreads == 2

Calls == 1..NumCalls
Keys == 1..NumKeys
\* a user id that is no positive integer, as the unit tests pass it
InvalidKeys == {0 - 1}
AllKeys == Keys \cup InvalidKeys

\* ------------------------------------------------------ program constants
MAX_POINT == 10000000
MAX_CHARGE_PER_TRANSACTION == 1000000
USE_UNIT == 100

TransactionType_CHARGE == "CHARGE"
TransactionType_USE == "USE"
TransactionType == {TransactionType_CHARGE, TransactionType_USE}

OK == "OK"
MAX_POINT_EXCEEDED == "MAX_POINT_EXCEEDED"
MAX_CHARGE_EXCEEDED == "MAX_CHARGE_EXCEEDED"
INVALID_USE_UNIT == "INVALID_USE_UNIT"
INSUFFICIENT_BALANCE == "INSUFFICIENT_BALANCE"
PointErrorMessages ==
  {MAX_POINT_EXCEEDED, MAX_CHARGE_EXCEEDED, INVALID_USE_UNIT, INSUFFICIENT_BALANCE}
\* type of a call whose operation is not a transaction of the service but
\* an operation that itself calls acquire and awaits it
NESTED == "NESTED"
\* the error a repository method rejects with when the store fails
STORE_FAILURE == "STORE_FAILURE"

\* ------------------------------------------------------------ model inputs
\* Amounts concurrent callers pass to chargePoint / usePoint: a charge and
\* a debit that pass validateAmount, and a charge that does not.  A charge
\* of 5000 fills an account holding 9995000 up to MAX_POINT exactly; the
\* debit then leaves exactly its own amount.
ChargeAmounts == {5000, 1000001}
UseAmounts == {5000000}
\* Amounts passed when the service is called directly, as its tests do,
\* without the DTO check (@Min(1)) of the controller in front of it.
DirectChargeAmounts == ChargeAmounts \cup {MAX_CHARGE_PER_TRANSACTION, 0 - 500}
DirectUseAmounts == UseAmounts \cup {1050, 0 - 10000}
\* Amounts of concurrent callers of which most are malformed: a charge above
\* the cap, a debit that is no multiple of USE_UNIT, and a debit that passes.
MalformedChargeAmounts == {1000001}
MalformedUseAmounts == UseAmounts \cup {1050}
\* Amounts that pass validateAmount.
WellFormedChargeAmounts == {5000}
WellFormedUseAmounts == {5000000}
\* Amounts the validators are evaluated on by themselves: those around the
\* cap of a charge and those of the unit tests of the debit unit.
ChargeSamples == {0 - 500, 0, 1, 999999, 1000000, 1000001, 2000000}
UseSamples == {0 - 10000, 0 - 50, 0, 50, 99, 100, 150, 200, 1001, 1050, 5000000}
\* Balances an account may hold when the calls are issued: a fresh account
\* and one that is 5000 below MAX_POINT.
InitPoints == {0, 9995000}

\* Promise.resolve(): the lock a call waits for when the registry is empty
NoLock == 0
\* value of a local variable that has not been assigned yet
Unset == "unset"

\* readPoint / newPoint of a call that has not read / computed yet
NoPoint == 0 - 1

\* updatedPoint / returned of a call whose balance write has not returned
NoAccount == [point |-> NoPoint, updateMillis |-> NoPoint]

\* args of a call that has not been made
NoArgs == [userId |-> 0, amount |-> 0, type |-> Unset]

VARIABLES
  locks,        \* LockManager.locks : userId -> lock promise (or NoLock)
  resolved,     \* lock promises whose release() has been called
  previousLock, \* acquire's local previousLock, per call
  pc,           \* where each call stands
  args,         \* (userId, amount, type) of each issued call
  readPoint,    \* userPoint.point read by the operation
  newPoint,     \* newPoint computed by calculateNewPoint
  updatedPoint, \* account returned by updateUserPoint
  outcome,      \* how the operation passed to acquire settled
  result,       \* what acquire delivered to its caller
  table,        \* UserPointTable.table : userId -> account, for the ids stored
  history,      \* PointHistoryTable.table, as the rows of each userId in append order
  clock,        \* per userId, Date.now() at its latest write (timers take a tick)
  admitOrder,   \* per key, calls in the order locks.set registered them
  startOrder,   \* per key, calls in the order operation() was invoked
  invoked,      \* number of times each call's operation was invoked
  repoCalls,    \* repository methods each operation has called, in order
  initPoint,    \* balance of each key before any call
  returned,     \* account a committed operation resolved with
  abandoned,    \* calls whose caller has stopped waiting for the result
  raced,        \* keys on which two admissions have overlapped
  awaits        \* per call, the nested acquire call its operation awaits

vars == <<locks, resolved, previousLock, pc, args, readPoint, newPoint,
          updatedPoint, outcome, result, table, history, clock,
          admitOrder, startOrder, invoked, repoCalls, initPoint,
          returned, abandoned, raced, awaits>>

\* ------------------------------------------------------------ PointValidator
\* JavaScript's % truncates towards zero
JsRem(a, b) == IF a >= 0 THEN a % b ELSE 0 - ((0 - a) % b)

\* validateMaxPoint as it would be with >= in place of >
validateMaxPoint_inclusive(point) ==
  IF point >= MAX_POINT THEN MAX_POINT_EXCEEDED ELSE OK

validateMaxPoint(point) ==
  IF point > MAX_POINT THEN MAX_POINT_EXCEEDED ELSE OK

\* validateChargeAmount as it would be with >= in place of >
validateChargeAmount_inclusive(amount) ==
  IF amount >= MAX_CHARGE_PER_TRANSACTION THEN MAX_CHARGE_EXCEEDED ELSE OK

validateChargeAmount(amount) ==
  IF amount > MAX_CHARGE_PER_TRANSACTION THEN MAX_CHARGE_EXCEEDED ELSE OK

\* validateUseAmount as it would be if the unit were half of USE_UNIT
validateUseAmount_halfUnit(amount) ==
  IF JsRem(amount, USE_UNIT \div 2) # 0 THEN INVALID_USE_UNIT ELSE OK

validateUseAmount(amount) ==
  IF JsRem(amount, USE_UNIT) # 0 THEN INVALID_USE_UNIT ELSE OK

\* validateSufficientBalance as it would be with <= in place of <
validateSufficientBalance_strict(currentPoint, amountToUse) ==
  IF currentPoint <= amountToUse THEN INSUFFICIENT_BALANCE ELSE OK

validateSufficientBalance(currentPoint, amountToUse) ==
  IF currentPoint < amountToUse THEN INSUFFICIENT_BALANCE ELSE OK

\* ------------------------------------------------- PointService callbacks
\* the validateAmount callback chargePoint / usePoint hand over
validateAmount(type, amount) ==
  IF type = TransactionType_CHARGE THEN validateChargeAmount(amount)
  ELSE validateUseAmount(amount)

\* calculateNewPoint as it would be if usePoint did not call
\* validateSufficientBalance
calculateNewPoint_noBalanceCheck(type, currentPoint, amount) ==
  IF type = TransactionType_CHARGE
  THEN [err |-> validateMaxPoint(currentPoint + amount),
        point |-> currentPoint + amount]
  ELSE [err |-> OK, point |-> currentPoint - amount]

\* the calculateNewPoint callback: the error it throws, or OK and the value
calculateNewPoint(type, currentPoint, amount) ==
  IF type = TransactionType_CHARGE
  THEN [err |-> validateMaxPoint(currentPoint + amount),
        point |-> currentPoint + amount]
  ELSE [err |-> validateSufficientBalance(currentPoint, amount),
        point |-> currentPoint - amount]

\* ------------------------------------------------------------ the tables
\* UserPointTable.selectById: the stored account, or a zero account
selectById(tbl, id) ==
  IF id \in DOMAIN tbl THEN tbl[id] ELSE [point |-> 0, updateMillis |-> clock[id]]

\* UserPointTable.insertOrUpdate: the account stored for id at time now
insertOrUpdate(id, point, now) == [point |-> point, updateMillis |-> now]

\* Map.set on UserPointTable.table
tableSet(tbl, id, account) ==
  [k \in DOMAIN tbl \cup {id} |-> IF k = id THEN account ELSE tbl[k]]

\* PointHistoryTable.insert: the row appended (its id is its position)
insert(userId, amount, type, timeMillis) ==
  [userId |-> userId, amount |-> amount, type |-> type,
   timeMillis |-> timeMillis]

\* PointHistoryTable.selectAllByUserId: the rows of userId in append order
selectAllByUserId(hist, userId) == hist[userId]

\* PointHistoryTable.table after a row was pushed
tablePush(hist, row) == [hist EXCEPT ![row.userId] = Append(@, row)]

\* ------------------------------------------------------------ LockManager
\* getPreviousLock as it would be if it ignored the registry
getPreviousLock_ignoreRegistry(userId) == NoLock

\* getPreviousLock as it would be if the registry held one lock for all
\* users: the lock registered last, whatever its key
getPreviousLock_anyKey(userId) ==
  LET held == {locks[k] : k \in DOMAIN locks} \ {NoLock}
  IN IF held = {} THEN NoLock
     ELSE CHOOSE c \in held : \A d \in held : d <= c

\* getPreviousLock: the registered lock, or an already resolved promise
getPreviousLock(userId) == locks[userId]

\* cleanupLockIfNeeded as it would be without the identity test
cleanupLockIfNeeded_always(userId, currentLock) ==
  [locks EXCEPT ![userId] = NoLock]

\* cleanupLockIfNeeded as it would be if it never deleted an entry
cleanupLockIfNeeded_never(userId, currentLock) == locks

\* cleanupLockIfNeeded: the registry after the call
cleanupLockIfNeeded(userId, currentLock) ==
  IF locks[userId] = currentLock
  THEN [locks EXCEPT ![userId] = NoLock]
  ELSE locks

hasActiveLock(userId) == locks[userId] # NoLock

\* ------------------------------------------------------------ initial state
RECURSIVE ChargesFor(_)
\* amounts of the charges that filled an account up to point b
ChargesFor(b) ==
  IF b = 0 THEN <<>>
  ELSE IF b > MAX_CHARGE_PER_TRANSACTION
       THEN <<MAX_CHARGE_PER_TRANSACTION>> \o ChargesFor(b - MAX_CHARGE_PER_TRANSACTION)
       ELSE <<b>>

\* history rows of key k when its account holds b: charge i at time i
RowsFor(k, b) ==
  LET cs == ChargesFor(b)
  IN [i \in 1..Len(cs) |-> insert(k, cs[i], TransactionType_CHARGE, i)]

Init ==
  /\ initPoint \in [Keys -> InitPoints]
  /\ history = [k \in AllKeys |->
                 IF k \in Keys THEN RowsFor(k, initPoint[k]) ELSE <<>>]
  /\ clock = [k \in AllKeys |-> Len(history[k])]
  /\ table = [k \in {j \in Keys : initPoint[j] # 0} |->
                insertOrUpdate(k, initPoint[k], clock[k])]
  /\ locks = [k \in AllKeys |-> NoLock]
  /\ resolved = {}
  /\ previousLock = [c \in Calls |-> NoLock]
  /\ pc = [c \in Calls |-> "idle"]
  /\ args = [c \in Calls |-> NoArgs]
  /\ readPoint = [c \in Calls |-> NoPoint]
  /\ newPoint = [c \in Calls |-> NoPoint]
  /\ updatedPoint = [c \in Calls |-> NoAccount]
  /\ outcome = [c \in Calls |-> Unset]
  /\ result = [c \in Calls |-> Unset]
  /\ admitOrder = [k \in AllKeys |-> <<>>]
  /\ startOrder = [k \in AllKeys |-> <<>>]
  /\ invoked = [c \in Calls |-> 0]
  /\ repoCalls = [c \in Calls |-> <<>>]
  /\ returned = [c \in Calls |-> NoAccount]
  /\ abandoned = {}
  /\ raced = {}
  /\ awaits = [c \in Calls |-> 0]

\* ------------------------------------------------------------ the actions
\* Admit as it would be if chargePoint / usePoint ran validateAmount before
\* calling acquire: a malformed amount is rejected at once, nothing is
\* registered and nothing is awaited
Admit_validateFirst(c, userId, type, amount) ==
  /\ pc[c] = "idle"
  /\ \A d \in Calls : d < c => pc[d] # "idle"
  /\ \A j \in Keys : j < userId => admitOrder[j] # <<>>
  /\ args' = [args EXCEPT ![c] = [userId |-> userId, amount |-> amount, type |-> type]]
  /\ LET err == validateAmount(type, amount)
     IN IF err = OK
        THEN /\ previousLock' = [previousLock EXCEPT ![c] = getPreviousLock(userId)]
             /\ locks' = [locks EXCEPT ![userId] = c]
             /\ admitOrder' = [admitOrder EXCEPT ![userId] = Append(@, c)]
             /\ pc' = [pc EXCEPT ![c] = "waiting"]
             /\ UNCHANGED <<outcome, result>>
        ELSE /\ outcome' = [outcome EXCEPT ![c] = err]
             /\ result' = [result EXCEPT ![c] = err]
             /\ pc' = [pc EXCEPT ![c] = "done"]
             /\ UNCHANGED <<previousLock, locks, admitOrder>>
  /\ UNCHANGED <<resolved, readPoint, newPoint, updatedPoint,
                 table, history, clock, startOrder, invoked, repoCalls, initPoint, returned,
                 abandoned, raced, awaits>>

\* chargePoint / usePoint is called: everything up to acquire's first
\* await runs synchronously (getPreviousLock, createLock, locks.set)
Admit(c, userId, type, amount) ==
  /\ pc[c] = "idle"
  /\ \A d \in Calls : d < c => pc[d] # "idle"
  /\ \A j \in Keys : j < userId => admitOrder[j] # <<>>
  /\ args' = [args EXCEPT ![c] = [userId |-> userId, amount |-> amount, type |-> type]]
  /\ previousLock' = [previousLock EXCEPT ![c] = getPreviousLock(userId)]
  /\ locks' = [locks EXCEPT ![userId] = c]
  /\ admitOrder' = [admitOrder EXCEPT ![userId] = Append(@, c)]
  /\ pc' = [pc EXCEPT ![c] = "waiting"]
  /\ UNCHANGED <<resolved, readPoint, newPoint, updatedPoint, outcome, result,
                 table, history, clock, startOrder, invoked, repoCalls, initPoint, returned,
                 abandoned, raced, awaits>>

\* Finish as it would be if release and cleanup followed the await of the
\* operation without try/finally
Finish_noFinally(c, how) ==
  /\ outcome' = [outcome EXCEPT ![c] = how]
  /\ IF how = OK
     THEN /\ resolved' = resolved \cup {c}
          /\ locks' = cleanupLockIfNeeded(args[c].userId, c)
     ELSE UNCHANGED <<resolved, locks>>
  /\ result' = [result EXCEPT ![c] = how]
  /\ pc' = [pc EXCEPT ![c] = "done"]

\* the operation of call c has settled (how: OK or the error thrown); the
\* continuation of await operation() is acquire's finally block: release(),
\* cleanupLockIfNeeded; then acquire settles the way the operation did
Finish(c, how) ==
  /\ outcome' = [outcome EXCEPT ![c] = how]
  /\ resolved' = resolved \cup {c}
  /\ locks' = cleanupLockIfNeeded(args[c].userId, c)
  /\ result' = [result EXCEPT ![c] = how]
  /\ pc' = [pc EXCEPT ![c] = "done"]

\* operation() is invoked: it runs validateAmount and, if that passes,
\* calls getUserPoint; if it throws, the operation has settled
Invoke(c) ==
  /\ invoked' = [invoked EXCEPT ![c] = @ + 1]
  /\ startOrder' = [startOrder EXCEPT ![args[c].userId] = Append(@, c)]
  /\ LET err == validateAmount(args[c].type, args[c].amount)
     IN IF err = OK
        THEN /\ repoCalls' = [repoCalls EXCEPT ![c] = Append(@, "getUserPoint")]
             /\ pc' = [pc EXCEPT ![c] = "reading"]
             /\ UNCHANGED <<outcome, result, locks, resolved>>
        ELSE /\ Finish(c, err)
             /\ UNCHANGED repoCalls
  /\ UNCHANGED <<previousLock, args, readPoint, newPoint, updatedPoint, table,
                 history, clock, admitOrder, initPoint, returned,
                 abandoned, raced, awaits>>

\* Start as it would be if the lock of a call were the promise of its
\* acquire, so that a predecessor's rejection rejects the await and the
\* operation is never invoked
Start_propagate(c) ==
  /\ pc[c] = "waiting"
  /\ previousLock[c] = NoLock \/ previousLock[c] \in resolved
  /\ IF previousLock[c] # NoLock /\ outcome[previousLock[c]] \in PointErrorMessages
     THEN /\ Finish(c, outcome[previousLock[c]])
          /\ UNCHANGED <<invoked, startOrder, repoCalls, previousLock, args,
                         readPoint, newPoint, updatedPoint, table, history,
                         clock, admitOrder, initPoint, returned,
                 abandoned, raced, awaits>>
     ELSE Invoke(c)

\* Start as it would be if acquire did not await previousLock
Start_noAwait(c) ==
  /\ pc[c] = "waiting"
  /\ Invoke(c)

\* await previousLock has returned: operation() is invoked
Start(c) ==
  /\ pc[c] = "waiting"
  /\ previousLock[c] = NoLock \/ previousLock[c] \in resolved
  /\ Invoke(c)

\* ReadDone as it would be if the balance were written before
\* calculateNewPoint validated it
ReadDone_writeFirst(c) ==
  /\ pc[c] = "reading"
  /\ LET userPoint == selectById(table, args[c].userId)
         calc == calculateNewPoint(args[c].type, userPoint.point, args[c].amount)
     IN /\ readPoint' = [readPoint EXCEPT ![c] = userPoint.point]
        /\ repoCalls' = [repoCalls EXCEPT ![c] = Append(@, "updateUserPoint")]
        /\ IF calc.err = OK
           THEN /\ newPoint' = [newPoint EXCEPT ![c] = calc.point]
                /\ pc' = [pc EXCEPT ![c] = "writing"]
                /\ UNCHANGED <<outcome, result, locks, resolved, table, clock>>
           ELSE /\ Finish(c, calc.err)
                /\ table' = tableSet(table, args[c].userId,
                                     insertOrUpdate(args[c].userId, calc.point,
                                                    clock[args[c].userId] + 1))
                /\ clock' = [clock EXCEPT ![args[c].userId] = @ + 1]
                /\ UNCHANGED newPoint
  /\ UNCHANGED <<previousLock, args, updatedPoint, history, admitOrder,
                 startOrder, invoked, initPoint, returned,
                 abandoned, raced, awaits>>

\* getUserPoint has returned: calculateNewPoint and, if it does not throw,
\* updatePointWithHistory calls updateUserPoint; if it throws, the operation
\* has settled
ReadDone(c) ==
  /\ pc[c] = "reading"
  /\ LET userPoint == selectById(table, args[c].userId)
         calc == calculateNewPoint(args[c].type, userPoint.point, args[c].amount)
     IN /\ IF calc.err = OK
           THEN /\ pc' = [pc EXCEPT ![c] = "writing"]
                /\ repoCalls' = [repoCalls EXCEPT ![c] = Append(@, "updateUserPoint")]
                /\ newPoint' = [newPoint EXCEPT ![c] = calc.point]
                /\ UNCHANGED <<outcome, result, locks, resolved>>
           ELSE /\ Finish(c, calc.err)
                /\ UNCHANGED <<newPoint, repoCalls>>
        /\ readPoint' = [readPoint EXCEPT ![c] = userPoint.point]
  /\ UNCHANGED <<previousLock, args, updatedPoint, table, history, clock,
                 admitOrder, startOrder, invoked, initPoint, returned,
                 abandoned, raced, awaits>>

\* WriteDone as it would be if the lock were released once the balance is
\* written, before the history entry is appended
WriteDone_releaseEarly(c) ==
  /\ pc[c] = "writing"
  /\ LET now == clock[args[c].userId] + 1
         account == insertOrUpdate(args[c].userId, newPoint[c], now)
     IN /\ table' = tableSet(table, args[c].userId, account)
        /\ updatedPoint' = [updatedPoint EXCEPT ![c] = account]
        /\ clock' = [clock EXCEPT ![args[c].userId] = now]
  /\ repoCalls' = [repoCalls EXCEPT ![c] = Append(@, "addPointHistory")]
  /\ resolved' = resolved \cup {c}
  /\ pc' = [pc EXCEPT ![c] = "recording"]
  /\ UNCHANGED <<locks, previousLock, args, readPoint, newPoint,
                 outcome, result, history, admitOrder, startOrder, invoked,
                 initPoint, returned, abandoned, raced, awaits>>

\* updateUserPoint has returned the stored account: addPointHistory is
\* called with its updateMillis
WriteDone(c) ==
  /\ pc[c] = "writing"
  /\ LET now == clock[args[c].userId] + 1
         account == insertOrUpdate(args[c].userId, newPoint[c], now)
     IN /\ table' = tableSet(table, args[c].userId, account)
        /\ updatedPoint' = [updatedPoint EXCEPT ![c] = account]
        /\ clock' = [clock EXCEPT ![args[c].userId] = now]
  /\ repoCalls' = [repoCalls EXCEPT ![c] = Append(@, "addPointHistory")]
  /\ pc' = [pc EXCEPT ![c] = "recording"]
  /\ UNCHANGED <<locks, resolved, previousLock, args, readPoint, newPoint,
                 outcome, result, history, admitOrder, startOrder, invoked,
                 initPoint, returned,
                 abandoned, raced, awaits>>

\* RecordDone as it would be if updatePointWithHistory passed newPoint
\* instead of amount to addPointHistory
RecordDone_newPoint(c) ==
  /\ pc[c] = "recording"
  /\ history' = tablePush(history, insert(args[c].userId, newPoint[c],
                                          args[c].type, updatedPoint[c].updateMillis))
  /\ returned' = [returned EXCEPT ![c] = updatedPoint[c]]
  /\ Finish(c, OK)
  /\ UNCHANGED <<previousLock, args, readPoint, newPoint, updatedPoint, table,
                 clock, admitOrder, startOrder, invoked, repoCalls, initPoint,
                 abandoned, raced, awaits>>

\* RecordDone as it would be if updatePointWithHistory passed the
\* updateMillis of the account the operation had read, which is one tick
\* older than that of the account its write returned
RecordDone_readTime(c) ==
  /\ pc[c] = "recording"
  /\ history' = tablePush(history, insert(args[c].userId, args[c].amount,
                                          args[c].type, updatedPoint[c].updateMillis - 1))
  /\ returned' = [returned EXCEPT ![c] = updatedPoint[c]]
  /\ Finish(c, OK)
  /\ UNCHANGED <<previousLock, args, readPoint, newPoint, updatedPoint, table,
                 clock, admitOrder, startOrder, invoked, repoCalls, initPoint,
                 abandoned, raced, awaits>>

\* addPointHistory has returned: the operation resolves with updatedPoint
RecordDone(c) ==
  /\ pc[c] = "recording"
  /\ history' = tablePush(history, insert(args[c].userId, args[c].amount,
                                          args[c].type, updatedPoint[c].updateMillis))
  /\ returned' = [returned EXCEPT ![c] = updatedPoint[c]]
  /\ Finish(c, OK)
  /\ UNCHANGED <<previousLock, args, readPoint, newPoint, updatedPoint, table,
                 clock, admitOrder, startOrder, invoked, repoCalls, initPoint,
                 abandoned, raced, awaits>>

\* getPoint as it would be if it read the balance under the lock of the
\* key, as an operation handed to acquire
getPoint_underLock(c, userId) == Admit(c, userId, "getPoint", 0)

\* getPoint is called: it calls getUserPoint and returns its promise
getPoint(c, userId) ==
  /\ pc[c] = "idle"
  /\ \A d \in Calls : d < c => pc[d] # "idle"
  /\ args' = [args EXCEPT ![c] = [userId |-> userId, type |-> "getPoint"]]
  /\ repoCalls' = [repoCalls EXCEPT ![c] = Append(@, "getUserPoint")]
  /\ pc' = [pc EXCEPT ![c] = "querying"]
  /\ UNCHANGED <<locks, resolved, previousLock, readPoint, newPoint,
                 updatedPoint, outcome, result, table, history, clock,
                 admitOrder, startOrder, invoked, initPoint, returned,
                 abandoned, raced, awaits>>

\* getPointHistories is called: it calls the repository's
\* getPointHistories and returns its promise
getPointHistories(c, userId) ==
  /\ pc[c] = "idle"
  /\ \A d \in Calls : d < c => pc[d] # "idle"
  /\ args' = [args EXCEPT ![c] = [userId |-> userId, type |-> "getPointHistories"]]
  /\ repoCalls' = [repoCalls EXCEPT ![c] = Append(@, "getPointHistories")]
  /\ pc' = [pc EXCEPT ![c] = "querying"]
  /\ UNCHANGED <<locks, resolved, previousLock, readPoint, newPoint,
                 updatedPoint, outcome, result, table, history, clock,
                 admitOrder, startOrder, invoked, initPoint, returned,
                 abandoned, raced, awaits>>

\* the table has answered the query of call c: the caller gets the account,
\* or the rows, the table holds at that moment
QueryDone(c) ==
  /\ pc[c] = "querying"
  /\ result' = [result EXCEPT ![c] =
                  IF args[c].type = "getPoint"
                  THEN selectById(table, args[c].userId)
                  ELSE selectAllByUserId(history, args[c].userId)]
  /\ pc' = [pc EXCEPT ![c] = "done"]
  /\ UNCHANGED <<locks, resolved, previousLock, args, readPoint, newPoint,
                 updatedPoint, outcome, table, history, clock,
                 admitOrder, startOrder, invoked, repoCalls, initPoint, returned,
                 abandoned, raced, awaits>>

\* getUserPoint has rejected: the operation rejects with the same error
\* before calculateNewPoint is called
ReadFail(c) ==
  /\ pc[c] = "reading"
  /\ Finish(c, STORE_FAILURE)
  /\ UNCHANGED <<previousLock, args, readPoint, newPoint, updatedPoint, table,
                 history, clock, admitOrder, startOrder, invoked, repoCalls,
                 initPoint, returned, abandoned, raced, awaits>>

\* updateUserPoint has rejected without storing the account: the operation
\* rejects with the same error before addPointHistory is called
WriteFail(c) ==
  /\ pc[c] = "writing"
  /\ Finish(c, STORE_FAILURE)
  /\ UNCHANGED <<previousLock, args, readPoint, newPoint, updatedPoint, table,
                 history, clock, admitOrder, startOrder, invoked, repoCalls,
                 initPoint, returned, abandoned, raced, awaits>>

\* addPointHistory has rejected without appending the row: the operation
\* rejects with the same error, the balance written stays written
RecordFail(c) ==
  /\ pc[c] = "recording"
  /\ Finish(c, STORE_FAILURE)
  /\ UNCHANGED <<previousLock, args, readPoint, newPoint, updatedPoint, table,
                 history, clock, admitOrder, startOrder, invoked, repoCalls,
                 initPoint, returned, abandoned, raced, awaits>>

\* acquire is called with an operation that will itself call acquire
acquireNested(c, userId) == Admit(c, userId, NESTED, 0)

\* Start of a call whose operation is a transaction of the service
StartTransaction(c) ==
  /\ args[c].type \in TransactionType
  /\ Start(c)

\* await previousLock has returned in call c and its operation is invoked:
\* the operation calls acquire(userId, ...) for a charge, which is call d and
\* runs up to its own await previousLock, and awaits it
StartNested(c, d, userId, amount) ==
  /\ pc[c] = "waiting"
  /\ args[c].type = NESTED
  /\ previousLock[c] = NoLock \/ previousLock[c] \in resolved
  /\ pc[d] = "idle"
  /\ \A e \in Calls : e < d => pc[e] # "idle"
  /\ \A j \in Keys : j < userId => admitOrder[j] # <<>>
  /\ pc' = [pc EXCEPT ![c] = "nested", ![d] = "waiting"]
  /\ invoked' = [invoked EXCEPT ![c] = @ + 1]
  /\ startOrder' = [startOrder EXCEPT ![args[c].userId] = Append(@, c)]
  /\ args' = [args EXCEPT ![d] = [userId |-> userId, amount |-> amount,
                                  type |-> TransactionType_CHARGE]]
  /\ previousLock' = [previousLock EXCEPT ![d] = getPreviousLock(userId)]
  /\ locks' = [locks EXCEPT ![userId] = d]
  /\ admitOrder' = [admitOrder EXCEPT ![userId] = Append(@, d)]
  /\ awaits' = [awaits EXCEPT ![c] = d]
  /\ UNCHANGED <<resolved, readPoint, newPoint, updatedPoint, outcome, result,
                 table, history, clock, repoCalls, initPoint, returned,
                 abandoned, raced>>

\* the acquire the operation of call c awaits has completed: the operation
\* settles the way that acquire did
NestedDone(c) ==
  /\ pc[c] = "nested"
  /\ pc[awaits[c]] = "done"
  /\ Finish(c, result[awaits[c]])
  /\ UNCHANGED <<previousLock, args, readPoint, newPoint, updatedPoint, table,
                 history, clock, admitOrder, startOrder, invoked, repoCalls,
                 initPoint, returned, abandoned, raced, awaits>>

\* the caller of call c stops waiting for the promise acquire returned (a
\* timeout or a cancellation on the caller's side): acquire takes no signal
\* and has no handle on the caller, so nothing of the lock changes
Abandon(c) ==
  /\ pc[c] = "waiting"
  /\ c \notin abandoned
  /\ abandoned' = abandoned \cup {c}
  /\ UNCHANGED <<locks, resolved, previousLock, pc, args, readPoint, newPoint,
                 updatedPoint, outcome, result, table, history, clock,
                 admitOrder, startOrder, invoked, repoCalls, initPoint,
                 returned, raced, awaits>>

\* acquire run by a thread of its own, first statement: getPreviousLock.
\* Another call of the key that has looked up its predecessor and has not
\* registered its lock yet makes the two admissions overlap.
AdmitLookup(c, userId, type, amount) ==
  /\ pc[c] = "idle"
  /\ \A d \in Calls : d < c => pc[d] # "idle"
  /\ \A j \in Keys : j < userId => admitOrder[j] # <<>>
  /\ args' = [args EXCEPT ![c] = [userId |-> userId, amount |-> amount, type |-> type]]
  /\ previousLock' = [previousLock EXCEPT ![c] = getPreviousLock(userId)]
  /\ admitOrder' = [admitOrder EXCEPT ![userId] = Append(@, c)]
  /\ raced' = IF \E d \in Calls : pc[d] = "admitting" /\ args[d].userId = userId
              THEN raced \cup {userId}
              ELSE raced
  /\ pc' = [pc EXCEPT ![c] = "admitting"]
  /\ UNCHANGED <<locks, resolved, readPoint, newPoint, updatedPoint, outcome,
                 result, table, history, clock, startOrder, invoked, repoCalls,
                 initPoint, returned, abandoned, awaits>>

\* acquire run by a thread of its own: createLock and locks.set
AdmitRegister(c) ==
  /\ pc[c] = "admitting"
  /\ locks' = [locks EXCEPT ![args[c].userId] = c]
  /\ pc' = [pc EXCEPT ![c] = "waiting"]
  /\ UNCHANGED <<resolved, previousLock, args, readPoint, newPoint,
                 updatedPoint, outcome, result, table, history, clock,
                 admitOrder, startOrder, invoked, repoCalls, initPoint,
                 returned, abandoned, raced, awaits>>

\* the operation of call c has settled and the thread of c has run
\* release(), the first statement of the finally block
Release(c, how) ==
  /\ outcome' = [outcome EXCEPT ![c] = how]
  /\ resolved' = resolved \cup {c}
  /\ pc' = [pc EXCEPT ![c] = "releasing"]
  /\ UNCHANGED <<locks, result>>

\* the thread of c runs cleanupLockIfNeeded, the second statement of the
\* finally block, and acquire settles the way the operation did
Cleanup(c) ==
  /\ pc[c] = "releasing"
  /\ locks' = cleanupLockIfNeeded(args[c].userId, c)
  /\ result' = [result EXCEPT ![c] = outcome[c]]
  /\ pc' = [pc EXCEPT ![c] = "done"]
  /\ UNCHANGED <<resolved, previousLock, args, readPoint, newPoint,
                 updatedPoint, outcome, table, history, clock, admitOrder,
                 startOrder, invoked, repoCalls, initPoint, returned,
                 abandoned, raced, awaits>>

\* Start where release() and cleanupLockIfNeeded are two steps
StartThreaded(c) ==
  /\ pc[c] = "waiting"
  /\ previousLock[c] = NoLock \/ previousLock[c] \in resolved
  /\ invoked' = [invoked EXCEPT ![c] = @ + 1]
  /\ startOrder' = [startOrder EXCEPT ![args[c].userId] = Append(@, c)]
  /\ LET err == validateAmount(args[c].type, args[c].amount)
     IN IF err = OK
        THEN /\ repoCalls' = [repoCalls EXCEPT ![c] = Append(@, "getUserPoint")]
             /\ pc' = [pc EXCEPT ![c] = "reading"]
             /\ UNCHANGED <<outcome, result, locks, resolved>>
        ELSE /\ Release(c, err)
             /\ UNCHANGED repoCalls
  /\ UNCHANGED <<previousLock, args, readPoint, newPoint, updatedPoint, table,
                 history, clock, admitOrder, initPoint, returned,
                 abandoned, raced, awaits>>

\* ReadDone where release() and cleanupLockIfNeeded are two steps
ReadDoneThreaded(c) ==
  /\ pc[c] = "reading"
  /\ LET userPoint == selectById(table, args[c].userId)
         calc == calculateNewPoint(args[c].type, userPoint.point, args[c].amount)
     IN /\ IF calc.err = OK
           THEN /\ pc' = [pc EXCEPT ![c] = "writing"]
                /\ repoCalls' = [repoCalls EXCEPT ![c] = Append(@, "updateUserPoint")]
                /\ newPoint' = [newPoint EXCEPT ![c] = calc.point]
                /\ UNCHANGED <<outcome, result, locks, resolved>>
           ELSE /\ Release(c, calc.err)
                /\ UNCHANGED <<newPoint, repoCalls>>
        /\ readPoint' = [readPoint EXCEPT ![c] = userPoint.point]
  /\ UNCHANGED <<previousLock, args, updatedPoint, table, history, clock,
                 admitOrder, startOrder, invoked, initPoint, returned,
                 abandoned, raced, awaits>>

\* RecordDone where release() and cleanupLockIfNeeded are two steps
RecordDoneThreaded(c) ==
  /\ pc[c] = "recording"
  /\ history' = tablePush(history, insert(args[c].userId, args[c].amount,
                                          args[c].type, updatedPoint[c].updateMillis))
  /\ returned' = [returned EXCEPT ![c] = updatedPoint[c]]
  /\ Release(c, OK)
  /\ UNCHANGED <<previousLock, args, readPoint, newPoint, updatedPoint, table,
                 clock, admitOrder, startOrder, invoked, repoCalls, initPoint,
                 abandoned, raced, awaits>>

\* LockManager.clear: locks.clear() (called while the registry has entries;
\* on an empty registry it changes nothing)
clear ==
  /\ \E k \in DOMAIN locks : hasActiveLock(k)
  /\ locks' = [k \in DOMAIN locks |-> NoLock]
  /\ UNCHANGED <<resolved, previousLock, pc, args, readPoint, newPoint,
                 updatedPoint, outcome, result, table, history, clock,
                 admitOrder, startOrder, invoked, repoCalls, initPoint,
                 returned, abandoned, raced, awaits>>

\* The inlined PointService: await previousLock has returned in call c and
\* the callback of chargePoint, or of usePoint, is invoked; it validates the
\* amount and calls getUserPoint
StartInlined(c) ==
  /\ pc[c] = "waiting"
  /\ previousLock[c] = NoLock \/ previousLock[c] \in resolved
  /\ invoked' = [invoked EXCEPT ![c] = @ + 1]
  /\ startOrder' = [startOrder EXCEPT ![args[c].userId] = Append(@, c)]
  /\ \/ /\ args[c].type = TransactionType_CHARGE
        /\ IF validateChargeAmount(args[c].amount) = OK
           THEN /\ repoCalls' = [repoCalls EXCEPT ![c] = Append(@, "getUserPoint")]
                /\ pc' = [pc EXCEPT ![c] = "reading"]
                /\ UNCHANGED <<outcome, result, locks, resolved>>
           ELSE /\ Finish(c, validateChargeAmount(args[c].amount))
                /\ UNCHANGED repoCalls
     \/ /\ args[c].type = TransactionType_USE
        /\ IF validateUseAmount(args[c].amount) = OK
           THEN /\ repoCalls' = [repoCalls EXCEPT ![c] = Append(@, "getUserPoint")]
                /\ pc' = [pc EXCEPT ![c] = "reading"]
                /\ UNCHANGED <<outcome, result, locks, resolved>>
           ELSE /\ Finish(c, validateUseAmount(args[c].amount))
                /\ UNCHANGED repoCalls
  /\ UNCHANGED <<previousLock, args, readPoint, newPoint, updatedPoint, table,
                 history, clock, admitOrder, initPoint, returned,
                 abandoned, raced, awaits>>

\* The inlined PointService: getUserPoint has returned currentPoint.
\* chargePoint adds the amount, calls validateMaxPoint and then
\* updatePointWithHistory; usePoint calls validateSufficientBalance,
\* subtracts the amount and calls updatePointWithHistory
ReadDoneInlined(c) ==
  /\ pc[c] = "reading"
  /\ LET currentPoint == selectById(table, args[c].userId)
     IN /\ \/ /\ args[c].type = TransactionType_CHARGE
              /\ LET sum == currentPoint.point + args[c].amount
                 IN IF validateMaxPoint(sum) = OK
                    THEN /\ pc' = [pc EXCEPT ![c] = "writing"]
                         /\ repoCalls' = [repoCalls EXCEPT ![c] =
                                            Append(@, "updateUserPoint")]
                         /\ newPoint' = [newPoint EXCEPT ![c] = sum]
                         /\ UNCHANGED <<outcome, result, locks, resolved>>
                    ELSE /\ Finish(c, validateMaxPoint(sum))
                         /\ UNCHANGED <<newPoint, repoCalls>>
           \/ /\ args[c].type = TransactionType_USE
              /\ IF validateSufficientBalance(currentPoint.point, args[c].amount) = OK
                 THEN /\ pc' = [pc EXCEPT ![c] = "writing"]
                      /\ repoCalls' = [repoCalls EXCEPT ![c] =
                                         Append(@, "updateUserPoint")]
                      /\ newPoint' = [newPoint EXCEPT ![c] =
                                        currentPoint.point - args[c].amount]
                      /\ UNCHANGED <<outcome, result, locks, resolved>>
                 ELSE /\ Finish(c, validateSufficientBalance(currentPoint.point,
                                                            args[c].amount))
                      /\ UNCHANGED <<newPoint, repoCalls>>
        /\ readPoint' = [readPoint EXCEPT ![c] = currentPoint.point]
  /\ UNCHANGED <<previousLock, args, updatedPoint, table, history, clock,
                 admitOrder, startOrder, invoked, initPoint, returned,
                 abandoned, raced, awaits>>

\* The inlined LockManager.acquire up to its first await: previousLock is
\* locks.get(userId) || Promise.resolve(), currentLock is a new promise, and
\* locks.set(userId, currentLock)
AdmitInlined(c, userId, type, amount) ==
  /\ pc[c] = "idle"
  /\ \A d \in Calls : d < c => pc[d] # "idle"
  /\ \A j \in Keys : j < userId => admitOrder[j] # <<>>
  /\ args' = [args EXCEPT ![c] = [userId |-> userId, amount |-> amount, type |-> type]]
  /\ previousLock' = [previousLock EXCEPT ![c] =
                        IF locks[userId] # NoLock THEN locks[userId] ELSE NoLock]
  /\ locks' = [locks EXCEPT ![userId] = c]
  /\ admitOrder' = [admitOrder EXCEPT ![userId] = Append(@, c)]
  /\ pc' = [pc EXCEPT ![c] = "waiting"]
  /\ UNCHANGED <<resolved, readPoint, newPoint, updatedPoint, outcome, result,
                 table, history, clock, startOrder, invoked, repoCalls, initPoint, returned,
                 abandoned, raced, awaits>>

\* The inlined LockManager.acquire: await previousLock has returned and
\* operation() is invoked
StartAcquireInlined(c) ==
  /\ pc[c] = "waiting"
  /\ \/ previousLock[c] = NoLock
     \/ previousLock[c] \in resolved
  /\ Invoke(c)

\* The finally block of the inlined LockManager.acquire for call c:
\* releaseLock(), and locks.delete(userId) if locks.get(userId) is
\* currentLock
FinallyInlined(c) ==
  /\ resolved' = resolved \cup {c}
  /\ locks' = IF locks[args[c].userId] = c
              THEN [k \in DOMAIN locks |->
                      IF k = args[c].userId THEN NoLock ELSE locks[k]]
              ELSE locks

chargePoint(c, userId, amount) == Admit(c, userId, TransactionType_CHARGE, amount)

usePoint(c, userId, amount) == Admit(c, userId, TransactionType_USE, amount)

Next ==
  \/ \E c \in Calls, k \in Keys, a \in ChargeAmounts : chargePoint(c, k, a)
  \/ \E c \in Calls, k \in Keys, a \in UseAmounts : usePoint(c, k, a)
  \/ \E c \in Calls : Start(c)
  \/ \E c \in Calls : ReadDone(c)
  \/ \E c \in Calls : WriteDone(c)
  \/ \E c \in Calls : RecordDone(c)

Spec == Init /\ [][Next]_vars

\* The event loop runs a continuation that is ready, and the timers of the
\* tables fire: while some call has a step to take, a step of some call is
\* eventually taken.  (Every step of a call changes its pc.)
Fairness ==
  WF_pc(\E c \in Calls : Start(c) \/ ReadDone(c) \/ WriteDone(c) \/ RecordDone(c))

\* Concurrent callers that pass well-formed amounts.
NextWellFormed ==
  \/ \E c \in Calls, k \in Keys, a \in WellFormedChargeAmounts : chargePoint(c, k, a)
  \/ \E c \in Calls, k \in Keys, a \in WellFormedUseAmounts : usePoint(c, k, a)
  \/ \E c \in Calls : Start(c)
  \/ \E c \in Calls : ReadDone(c)
  \/ \E c \in Calls : WriteDone(c)
  \/ \E c \in Calls : RecordDone(c)

SpecFair == Init /\ [][NextWellFormed]_vars /\ Fairness

\* Concurrent callers that pass well-formed amounts to a service whose
\* store may fail any call made to it.
NextStoreFailure ==
  \/ \E c \in Calls, k \in Keys, a \in WellFormedChargeAmounts : chargePoint(c, k, a)
  \/ \E c \in Calls, k \in Keys, a \in WellFormedUseAmounts : usePoint(c, k, a)
  \/ \E c \in Calls : Start(c)
  \/ \E c \in Calls : ReadDone(c)
  \/ \E c \in Calls : WriteDone(c)
  \/ \E c \in Calls : RecordDone(c)
  \/ \E c \in Calls : ReadFail(c)
  \/ \E c \in Calls : WriteFail(c)
  \/ \E c \in Calls : RecordFail(c)

\* every account holds 5000 less than MAX_POINT when the calls are issued
InitFunded == Init /\ \A k \in Keys : initPoint[k] = MAX_POINT - 5000

SpecStoreFailure == InitFunded /\ [][NextStoreFailure]_vars

\* Concurrent callers of the service and of acquire, where an operation
\* handed to acquire may call acquire itself, on its own key or on another.
NextReentrant ==
  \/ \E c \in Calls, k \in Keys, a \in WellFormedChargeAmounts : chargePoint(c, k, a)
  \/ \E c \in Calls, k \in Keys : acquireNested(c, k)
  \/ \E c \in Calls : StartTransaction(c)
  \/ \E c, d \in Calls, k \in Keys, a \in WellFormedChargeAmounts :
       StartNested(c, d, k, a)
  \/ \E c \in Calls : ReadDone(c)
  \/ \E c \in Calls : WriteDone(c)
  \/ \E c \in Calls : RecordDone(c)
  \/ \E c \in Calls : NestedDone(c)

\* The event loop runs every continuation that is ready and the timers of
\* the tables fire.
FairnessReentrant ==
  \A c \in Calls :
    /\ WF_pc(StartTransaction(c))
    /\ WF_pc(ReadDone(c))
    /\ WF_pc(WriteDone(c))
    /\ WF_pc(RecordDone(c))
    /\ WF_pc(NestedDone(c))

SpecReentrant == Init /\ [][NextReentrant]_vars /\ FairnessReentrant

\* Concurrent callers that pass well-formed amounts and may stop waiting
\* for a call before its operation has started.
NextAbandon ==
  \/ \E c \in Calls, k \in Keys, a \in WellFormedChargeAmounts : chargePoint(c, k, a)
  \/ \E c \in Calls, k \in Keys, a \in WellFormedUseAmounts : usePoint(c, k, a)
  \/ \E c \in Calls : Abandon(c)
  \/ \E c \in Calls : Start(c)
  \/ \E c \in Calls : ReadDone(c)
  \/ \E c \in Calls : WriteDone(c)
  \/ \E c \in Calls : RecordDone(c)

SpecAbandon == Init /\ [][NextAbandon]_vars

\* the calls that have been made and have not completed
InFlight == {c \in Calls : pc[c] \notin {"idle", "done"}}

\* Charges issued by callers that each run on a thread of their own: the
\* statements of acquire before its first await, and those of its finally
\* block, are steps that calls of the same key may interleave.
NextThreads ==
  \/ \E c \in Calls, k \in Keys, a \in WellFormedChargeAmounts :
       /\ Cardinality(InFlight) < MaxThreads
       /\ AdmitLookup(c, k, TransactionType_CHARGE, a)
  \/ \E c \in Calls : AdmitRegister(c)
  \/ \E c \in Calls : StartThreaded(c)
  \/ \E c \in Calls : ReadDoneThreaded(c)
  \/ \E c \in Calls : WriteDone(c)
  \/ \E c \in Calls : RecordDoneThreaded(c)
  \/ \E c \in Calls : Cleanup(c)

\* every account is fresh when the threads start
InitThreads == Init /\ \A k \in Keys : initPoint[k] = 0

SpecThreads == InitThreads /\ [][NextThreads]_vars

\* Concurrent callers that pass well-formed amounts and concurrent readers.
NextReads ==
  \/ \E c \in Calls, k \in Keys, a \in WellFormedChargeAmounts : chargePoint(c, k, a)
  \/ \E c \in Calls, k \in Keys, a \in WellFormedUseAmounts : usePoint(c, k, a)
  \/ \E c \in Calls, k \in Keys : getPoint(c, k)
  \/ \E c \in Calls, k \in Keys : getPointHistories(c, k)
  \/ \E c \in Calls : Start(c)
  \/ \E c \in Calls : ReadDone(c)
  \/ \E c \in Calls : WriteDone(c)
  \/ \E c \in Calls : RecordDone(c)
  \/ \E c \in Calls : QueryDone(c)

SpecReads == Init /\ [][NextReads]_vars

\* Concurrent callers that pass well-formed amounts, and a caller of
\* LockManager.clear.
NextClear ==
  \/ \E c \in Calls, k \in Keys, a \in WellFormedChargeAmounts : chargePoint(c, k, a)
  \/ \E c \in Calls, k \in Keys, a \in WellFormedUseAmounts : usePoint(c, k, a)
  \/ clear
  \/ \E c \in Calls : Start(c)
  \/ \E c \in Calls : ReadDone(c)
  \/ \E c \in Calls : WriteDone(c)
  \/ \E c \in Calls : RecordDone(c)

SpecClear == Init /\ [][NextClear]_vars

\* The service called directly by one caller that awaits each call before
\* it issues the next one.
NoCallInFlight == \A c \in Calls : pc[c] \in {"idle", "done"}

NextDirect ==
  \/ \E c \in Calls, k \in Keys, a \in DirectChargeAmounts :
       NoCallInFlight /\ chargePoint(c, k, a)
  \/ \E c \in Calls, k \in Keys, a \in DirectUseAmounts :
       NoCallInFlight /\ usePoint(c, k, a)
  \/ \E c \in Calls : Start(c)
  \/ \E c \in Calls : ReadDone(c)
  \/ \E c \in Calls : WriteDone(c)
  \/ \E c \in Calls : RecordDone(c)

SpecDirect == Init /\ [][NextDirect]_vars

\* The service called directly by one caller that awaits each call, with
\* the amounts of Spec and with user ids that need not be positive.
NextAnyKey ==
  \/ \E c \in Calls, k \in AllKeys, a \in ChargeAmounts :
       NoCallInFlight /\ chargePoint(c, k, a)
  \/ \E c \in Calls, k \in AllKeys, a \in UseAmounts :
       NoCallInFlight /\ usePoint(c, k, a)
  \/ \E c \in Calls, k \in AllKeys : NoCallInFlight /\ getPoint(c, k)
  \/ \E c \in Calls, k \in AllKeys : NoCallInFlight /\ getPointHistories(c, k)
  \/ \E c \in Calls : Start(c)
  \/ \E c \in Calls : ReadDone(c)
  \/ \E c \in Calls : WriteDone(c)
  \/ \E c \in Calls : RecordDone(c)
  \/ \E c \in Calls : QueryDone(c)

SpecAnyKey == Init /\ [][NextAnyKey]_vars

\* Concurrent callers that mostly pass malformed amounts.
NextMalformed ==
  \/ \E c \in Calls, k \in Keys, a \in MalformedChargeAmounts : chargePoint(c, k, a)
  \/ \E c \in Calls, k \in Keys, a \in MalformedUseAmounts : usePoint(c, k, a)
  \/ \E c \in Calls : Start(c)
  \/ \E c \in Calls : ReadDone(c)
  \/ \E c \in Calls : WriteDone(c)
  \/ \E c \in Calls : RecordDone(c)

SpecMalformed == Init /\ [][NextMalformed]_vars

\* ------------------------------------------------------------ vocabulary
\* calls of chargePoint / usePoint issued for key k
KeyCalls(k) ==
  {c \in Calls : pc[c] # "idle" /\ args[c].userId = k
                                /\ args[c].type \in TransactionType}

\* the operation of call c is between its start and its settlement
InSection(c) == pc[c] \in {"reading", "writing", "recording"}

\* every call issued for key k has completed
Quiet(k) == \A c \in KeyCalls(k) : pc[c] = "done"

\* stored balance of key k
Balance(k) == selectById(table, k).point

\* rows of key k appended by the calls (those after the initial rows)
NewRows(k) ==
  LET rows == selectAllByUserId(history, k)
      n0 == Len(ChargesFor(initPoint[k]))
  IN SubSeq(rows, n0 + 1, Len(rows))

\* position of call c in the admission order of its key
Pos(c) ==
  LET ord == admitOrder[args[c].userId]
  IN CHOOSE i \in 1..Len(ord) : ord[i] = c

IsPrefix(s, t) == Len(s) <= Len(t) /\ SubSeq(t, 1, Len(s)) = s

Range(s) == {s[i] : i \in DOMAIN s}

\* ------------------------------------------------------------ C1
\* C1: mutual exclusion.  In every reachable state, for every key, at most
\* one operation handed to acquire is between its start and its settlement.
MutualExclusion ==
  \A k \in Keys : Cardinality({c \in KeyCalls(k) : InSection(c)}) <= 1

\* a call is inside its section while another call for the same key, issued
\* during that section, is held back
MutualExclusionWitness ==
  \E c, d \in Calls :
    /\ c # d
    /\ InSection(c)
    /\ pc[d] = "waiting"
    /\ args[d].userId = args[c].userId
    /\ pc[c] = "writing"

\* ------------------------------------------------------------ C3
\* C3: strict FIFO per key.  Operations of one key start in the order in
\* which their acquire calls registered their lock, and an operation starts
\* only after every operation admitted before it for that key has settled
\* and released the lock.
StrictFifo ==
  \A k \in Keys :
    /\ IsPrefix(startOrder[k], admitOrder[k])
    /\ \A c, d \in KeyCalls(k) :
         (Pos(c) < Pos(d) /\ invoked[d] > 0) => pc[c] = "done"

\* three calls of one key have started, the first two while their successor
\* was already queued behind them
RECURSIVE AllQueuedBehind(_, _)
AllQueuedBehind(ord, i) ==
  IF i >= Len(ord) THEN TRUE
  ELSE previousLock[ord[i + 1]] = ord[i] /\ AllQueuedBehind(ord, i + 1)

StrictFifoWitness ==
  \E k \in Keys :
    /\ Len(startOrder[k]) >= 3
    /\ AllQueuedBehind(admitOrder[k], 1)

\* ------------------------------------------------------------ C2
\* kinds and amounts of the calls issued for key k
AllOfKind(k, type, amount) ==
  \A c \in KeyCalls(k) : args[c].type = type /\ args[c].amount = amount

\* all calls of key k succeeded, its balance is b and the calls left exactly
\* n rows of the given kind
AllApplied(k, type, n, b) ==
  /\ \A c \in KeyCalls(k) : result[c] = OK
  /\ Balance(k) = b
  /\ Len(NewRows(k)) = n
  /\ \A i \in DOMAIN NewRows(k) : NewRows(k)[i].type = type

\* C2 as stated: N concurrent chargePoint calls of amount A on a key that
\* starts at 0, with N*A <= MAX_POINT, all succeed, and once all have
\* completed the balance is N*A and the history holds N CHARGE entries.
NoLostUpdatesAsStated ==
  \A k \in Keys : \A A \in ChargeAmounts :
    LET N == Cardinality(KeyCalls(k))
    IN (/\ initPoint[k] = 0
        /\ N > 0
        /\ Quiet(k)
        /\ AllOfKind(k, TransactionType_CHARGE, A)
        /\ N * A <= MAX_POINT)
       => AllApplied(k, TransactionType_CHARGE, N, N * A)

\* C2 (amended): the same, for amounts A <= MAX_CHARGE_PER_TRANSACTION.
NoLostUpdates ==
  \A k \in Keys : \A A \in ChargeAmounts :
    LET N == Cardinality(KeyCalls(k))
    IN (/\ initPoint[k] = 0
        /\ N > 0
        /\ Quiet(k)
        /\ AllOfKind(k, TransactionType_CHARGE, A)
        /\ A <= MAX_CHARGE_PER_TRANSACTION
        /\ N * A <= MAX_POINT)
       => AllApplied(k, TransactionType_CHARGE, N, N * A)

\* every call was a charge of 5000 on one fresh key, each issued while its
\* predecessor had not finished, and all of them have completed
NoLostUpdatesWitness ==
  \E k \in Keys :
    /\ initPoint[k] = 0
    /\ KeyCalls(k) = Calls
    /\ Quiet(k)
    /\ AllOfKind(k, TransactionType_CHARGE, 5000)
    /\ AllQueuedBehind(admitOrder[k], 1)
    /\ Balance(k) = NumCalls * 5000

\* ------------------------------------------------------------ C4
\* one call run alone on balance b: how it ends and the balance it leaves
ApplyAlone(b, type, amount) ==
  IF validateAmount(type, amount) # OK
  THEN [err |-> validateAmount(type, amount), point |-> b]
  ELSE LET calc == calculateNewPoint(type, b, amount)
       IN IF calc.err # OK THEN [err |-> calc.err, point |-> b]
          ELSE [err |-> OK, point |-> calc.point]

RECURSIVE SeqPoint(_, _)
\* balance of key k after its first n calls ran one after another
SeqPoint(k, n) ==
  IF n = 0 THEN initPoint[k]
  ELSE LET c == admitOrder[k][n]
       IN ApplyAlone(SeqPoint(k, n - 1), args[c].type, args[c].amount).point

\* how the n-th call of key k ends when the calls run one after another
SeqOutcome(k, n) ==
  LET c == admitOrder[k][n]
  IN ApplyAlone(SeqPoint(k, n - 1), args[c].type, args[c].amount).err

RECURSIVE SeqRows(_, _)
\* (type, amount) of the rows the first n calls of key k leave when they
\* run one after another
SeqRows(k, n) ==
  IF n = 0 THEN <<>>
  ELSE LET c == admitOrder[k][n]
       IN IF SeqOutcome(k, n) = OK
          THEN Append(SeqRows(k, n - 1), <<args[c].type, args[c].amount>>)
          ELSE SeqRows(k, n - 1)

\* C4: serializability.  Once the calls issued for a key have completed,
\* its balance, the outcome of every call and the rows added to its history
\* are those of running the same calls one after another in admission order.
Serializable ==
  \A k \in Keys :
    Quiet(k) =>
      LET n == Len(admitOrder[k])
      IN /\ Balance(k) = SeqPoint(k, n)
         /\ \A i \in 1..n : result[admitOrder[k][i]] = SeqOutcome(k, i)
         /\ [i \in DOMAIN NewRows(k) |->
               <<NewRows(k)[i].type, NewRows(k)[i].amount>>] = SeqRows(k, n)

\* a debit and a charge were queued behind each other on a key that was
\* 5000 below MAX_POINT, and both have completed
SerializableWitness ==
  \E k \in Keys : \E c, d \in KeyCalls(k) :
    /\ Quiet(k)
    /\ initPoint[k] = 9995000
    /\ previousLock[d] = c
    /\ args[c].type = TransactionType_USE /\ result[c] = OK
    /\ args[d].type = TransactionType_CHARGE /\ result[d] = OK
    /\ Balance(k) = 9995000 - 5000000 + 5000

\* ------------------------------------------------------------ C5
RECURSIVE LedgerSum(_)
\* sum of the CHARGE amounts minus sum of the USE amounts of the rows
LedgerSum(rows) ==
  IF rows = <<>> THEN 0
  ELSE LET h == Head(rows)
       IN (IF h.type = TransactionType_CHARGE THEN h.amount ELSE 0 - h.amount)
          + LedgerSum(Tail(rows))

\* signed amount of a call
Signed(c) ==
  IF args[c].type = TransactionType_CHARGE THEN args[c].amount
  ELSE 0 - args[c].amount

\* calls of key k that have written the balance and not yet appended
\* their history row
Unrecorded(k) == {c \in KeyCalls(k) : pc[c] = "recording"}

BalanceBounds ==
  \A k \in Keys : 0 <= Balance(k) /\ Balance(k) <= MAX_POINT

\* ------------------------------------------------------------ C7
\* the operation of call c called neither updateUserPoint nor
\* addPointHistory
NoWriteCalls(c) ==
  Range(repoCalls[c]) \cap {"updateUserPoint", "addPointHistory"} = {}

\* C7: rejected leaves no partial write.  An operation that fails a
\* validation has called neither updateUserPoint nor addPointHistory, and
\* the steps in which it is rejected and completes leave the balance table
\* and the history as they were.
RejectedLeavesNoWrite ==
  [][\A c \in Calls :
       outcome'[c] \in PointErrorMessages =>
         /\ NoWriteCalls(c)'
         /\ pc'[c] # pc[c] => (table' = table /\ history' = history)]_vars

\* three calls have completed, one rejected before the balance was read
\* and two after it, by three different validations, and balances and
\* histories are what they were before the calls
RejectedLeavesNoWriteWitness ==
  /\ \E c, d, e \in Calls :
       /\ pc[c] = "done" /\ result[c] = MAX_POINT_EXCEEDED
       /\ pc[d] = "done" /\ result[d] = INSUFFICIENT_BALANCE
       /\ pc[e] = "done" /\ result[e] \in {INVALID_USE_UNIT, MAX_CHARGE_EXCEEDED}
  /\ \A k \in Keys : Balance(k) = initPoint[k] /\ NewRows(k) = <<>>

\* ------------------------------------------------------------ C8
\* C8: at most one success under contention.  When the calls issued for a
\* key with balance B are k >= 2 concurrent usePoint calls of one amount A,
\* a multiple of USE_UNIT with A <= B < 2A, then once they have completed
\* exactly B \div A (= 1) of them succeeded, the others failed with the
\* insufficient-balance error, the balance is B - A and exactly one USE row
\* was added.
OneDebitWins ==
  \A k \in Keys : \A A \in UseAmounts :
    LET B == initPoint[k]
        won == {c \in KeyCalls(k) : result[c] = OK}
    IN (/\ Cardinality(KeyCalls(k)) >= 2
        /\ Quiet(k)
        /\ AllOfKind(k, TransactionType_USE, A)
        /\ JsRem(A, USE_UNIT) = 0
        /\ A <= B /\ B < 2 * A)
       => /\ Cardinality(won) = B \div A
          /\ Cardinality(won) = 1
          /\ \A c \in KeyCalls(k) \ won : result[c] = INSUFFICIENT_BALANCE
          /\ Balance(k) = B - A
          /\ Len(NewRows(k)) = 1
          /\ NewRows(k)[1].type = TransactionType_USE
          /\ NewRows(k)[1].amount = A

\* every call was a debit of 5000000 on one key holding 9995000, each
\* issued while its predecessor had not finished, and all have completed
OneDebitWinsWitness ==
  \E k \in Keys :
    /\ initPoint[k] = 9995000
    /\ KeyCalls(k) = Calls
    /\ Quiet(k)
    /\ AllOfKind(k, TransactionType_USE, 5000000)
    /\ AllQueuedBehind(admitOrder[k], 1)
    /\ Balance(k) = 4995000

\* ------------------------------------------------------------ C9
\* C9: failure releases the lock.  When the operation handed to acquire has
\* failed and acquire has completed, the caller got that same failure, the
\* lock promise of the call is resolved and no longer registered, and the
\* call queued behind it, if any, is free to start.
FailureReleasesLock ==
  \A c \in Calls :
    (pc[c] = "done" /\ outcome[c] \in PointErrorMessages) =>
      /\ result[c] = outcome[c]
      /\ c \in resolved
      /\ locks[args[c].userId] # c
      /\ \A d \in Calls :
           (pc[d] = "waiting" /\ previousLock[d] = c) => ENABLED Start(d)

\* a call has failed and completed while its successor is still queued
\* behind its lock
FailureReleasesLockWitness ==
  \E c, d \in Calls :
    /\ pc[c] = "done" /\ outcome[c] \in PointErrorMessages
    /\ pc[d] = "waiting" /\ previousLock[d] = c

\* ------------------------------------------------------------ C10
\* how the operation of call c ends by its own execution: by its arguments
\* and the balance it read
OwnOutcome(c) ==
  IF validateAmount(args[c].type, args[c].amount) # OK
  THEN validateAmount(args[c].type, args[c].amount)
  ELSE calculateNewPoint(args[c].type, readPoint[c], args[c].amount).err

\* C10: exactly-once execution independent of predecessors.  No operation
\* is invoked more than once, every completed call had its operation
\* invoked exactly once, and what its caller got is what its own execution
\* produced, whatever the calls before it on the key ended with.
ExactlyOnce ==
  \A c \in Calls :
    /\ invoked[c] <= 1
    /\ pc[c] = "done" => (invoked[c] = 1 /\ result[c] = OwnOutcome(c))

\* a call queued behind a call that failed has completed successfully
ExactlyOnceWitness ==
  \E c, d \in Calls :
    /\ previousLock[d] = c
    /\ pc[c] = "done" /\ result[c] \in PointErrorMessages
    /\ pc[d] = "done" /\ result[d] = OK

\* ------------------------------------------------------------ C11
\* every call issued so far has completed, by success or by failure
AllCompleted == \A c \in Calls : pc[c] \in {"idle", "done"}

\* C11: the registry does not leak.  In any state where every acquire call
\* issued so far has completed, whatever the keys, the interleaving and the
\* outcomes were, the lock registry holds no entry.
RegistryDoesNotLeak ==
  AllCompleted => \A k \in DOMAIN locks : ~hasActiveLock(k)

\* all calls were issued and have completed, over more than one key, some
\* queued behind another, some failed and some committed
RegistryDoesNotLeakWitness ==
  /\ \A c \in Calls : pc[c] = "done"
  /\ Cardinality({args[c].userId : c \in Calls}) > 1
  /\ \E c \in Calls : previousLock[c] # NoLock
  /\ \E c \in Calls : result[c] \in PointErrorMessages
  /\ \E c \in Calls : result[c] = OK

\* ------------------------------------------------------------ C12
\* an operation of key k is queued or running: its acquire has registered
\* its lock and has not completed
QueuedOrRunning(k) == \E c \in KeyCalls(k) : pc[c] # "done"

\* C12: registry liveness.  In every reachable state the registry has an
\* entry for a key (hasActiveLock) exactly when an operation for that key
\* is queued or running; in particular no state has a waiter queued on a
\* key whose entry was removed.
RegistryLiveness ==
  \A k \in DOMAIN locks : hasActiveLock(k) <=> QueuedOrRunning(k)

\* an operation has completed and left the entry of its key registered,
\* because a waiter is queued behind it; another key has no entry
RegistryLivenessWitness ==
  \E c, d \in Calls :
    /\ pc[c] = "done" /\ pc[d] = "waiting" /\ previousLock[d] = c
    /\ hasActiveLock(args[d].userId)
    /\ \E k \in Keys : ~hasActiveLock(k) /\ KeyCalls(k) # {} /\ Quiet(k)

\* ------------------------------------------------------------ C13
\* the calls admitted for the key of c before c
Earlier(c) == {d \in KeyCalls(args[c].userId) : Pos(d) < Pos(c)}

\* C13: key independence.  Whether a call can take its next step depends
\* on its own key only: a waiting call whose earlier calls on its key have
\* all completed (none, if the key was idle when it was admitted) can start
\* whatever is queued or running on other keys, and a started operation can
\* always take its next step.
KeyIndependence ==
  \A c \in Calls :
    /\ (pc[c] = "waiting" /\ \A d \in Earlier(c) : pc[d] = "done")
          => ENABLED Start(c)
    /\ pc[c] = "reading" => ENABLED ReadDone(c)
    /\ pc[c] = "writing" => ENABLED WriteDone(c)
    /\ pc[c] = "recording" => ENABLED RecordDone(c)

\* a call was admitted on an idle key and has not started yet, while on
\* another key one operation is running and another is queued behind it
KeyIndependenceWitness ==
  \E c, d, e \in Calls :
    /\ pc[c] = "waiting" /\ previousLock[c] = NoLock
    /\ InSection(d) /\ args[d].userId # args[c].userId
    /\ pc[e] = "waiting" /\ previousLock[e] = d

\* ------------------------------------------------------------ C14
\* call c was issued with an amount validateAmount rejects: a charge above
\* MAX_CHARGE_PER_TRANSACTION or a debit that is no multiple of USE_UNIT
Malformed(c) ==
  pc[c] # "idle" /\ validateAmount(args[c].type, args[c].amount) # OK

\* C14 as stated: pre-lock rejection.  A call with a malformed amount is
\* rejected before any lock is acquired: it never registers an entry in the
\* lock registry and never waits for the operations queued or running on
\* its key.
PreLockRejection ==
  \A c \in Calls :
    Malformed(c) =>
      /\ c \notin Range(admitOrder[args[c].userId])
      /\ pc[c] # "waiting"

\* C14, amended: rejection under the lock, before the store.  A call with a
\* malformed amount registers its lock on admission like any other call,
\* is rejected with the validation error only after every call admitted
\* before it on its key has completed, and calls no repository method.
PostLockRejection ==
  \A c \in Calls :
    Malformed(c) =>
      /\ repoCalls[c] = <<>>
      /\ c \in Range(admitOrder[args[c].userId])
      /\ pc[c] \in {"waiting", "done"}
      /\ pc[c] = "waiting" => hasActiveLock(args[c].userId)
      /\ pc[c] = "done" =>
           /\ result[c] = validateAmount(args[c].type, args[c].amount)
           /\ \A d \in Earlier(c) : pc[d] = "done"

\* a charge above the cap and a debit of a wrong unit wait in the queue of
\* one key behind an operation that is running; the later of the two holds
\* the registry entry
PostLockRejectionWitness ==
  \E c, d, e \in Calls :
    /\ Malformed(c) /\ pc[c] = "waiting"
    /\ Malformed(e) /\ pc[e] = "waiting"
    /\ args[c].type = TransactionType_CHARGE
    /\ args[e].type = TransactionType_USE
    /\ args[c].userId = args[e].userId
    /\ locks[args[c].userId] \in {c, e}
    /\ d \in {previousLock[c], previousLock[e]} /\ InSection(d)

\* ------------------------------------------------------------ C15
\* C15: debit unit rule.  usePoint is rejected with the invalid-unit error
\* exactly when its amount is not a multiple of 100, whatever the balance
\* of the key, and a call with such an amount calls no repository method:
\* no balance-store read, no write, no history append.
DebitUnitRule ==
  /\ \A a \in UseSamples :
       (validateUseAmount(a) = INVALID_USE_UNIT) <=> (a % 100 # 0)
  /\ \A c \in Calls :
       (pc[c] # "idle" /\ args[c].type = TransactionType_USE) =>
         /\ pc[c] = "done" =>
              ((result[c] = INVALID_USE_UNIT) <=> (args[c].amount % 100 # 0))
         /\ args[c].amount % 100 # 0 => repoCalls[c] = <<>>

\* a debit of 1050 was rejected on a key holding 9995000 and on a key
\* holding nothing, and a debit of 5000000 was committed
DebitUnitRuleWitness ==
  \E c, d, e \in Calls :
    /\ pc[c] = "done" /\ pc[d] = "done" /\ pc[e] = "done"
    /\ args[c].type = TransactionType_USE /\ args[c].amount = 1050
    /\ args[d].type = TransactionType_USE /\ args[d].amount = 1050
    /\ initPoint[args[c].userId] = 9995000 /\ initPoint[args[d].userId] = 0
    /\ result[c] = INVALID_USE_UNIT /\ result[d] = INVALID_USE_UNIT
    /\ args[e].type = TransactionType_USE /\ result[e] = OK

\* ------------------------------------------------------------ C16
\* C16: per-operation credit cap.  chargePoint is rejected with the
\* max-charge error exactly when its amount is above 1,000,000 (1,000,000
\* passes, 1,000,001 does not), and a call with such an amount calls no
\* repository method.
CreditCapRule ==
  /\ \A a \in ChargeSamples :
       (validateChargeAmount(a) = MAX_CHARGE_EXCEEDED) <=> (a > 1000000)
  /\ \A c \in Calls :
       (pc[c] # "idle" /\ args[c].type = TransactionType_CHARGE) =>
         /\ pc[c] = "done" =>
              ((result[c] = MAX_CHARGE_EXCEEDED) <=> (args[c].amount > 1000000))
         /\ args[c].amount > 1000000 => repoCalls[c] = <<>>

\* a charge of 1,000,000 was committed and a charge of 1,000,001 rejected
CreditCapRuleWitness ==
  \E c, d \in Calls :
    /\ pc[c] = "done" /\ pc[d] = "done"
    /\ args[c].type = TransactionType_CHARGE /\ args[c].amount = 1000000
    /\ result[c] = OK /\ Balance(args[c].userId) = 1000000
    /\ args[d].type = TransactionType_CHARGE /\ args[d].amount = 1000001
    /\ result[d] = MAX_CHARGE_EXCEEDED /\ repoCalls[d] = <<>>

\* ------------------------------------------------------------ C17
\* C17: non-positive amounts are rejected by the operation itself.  A call
\* of chargePoint or usePoint with amount <= 0 fails, and calls none of
\* getUserPoint, updateUserPoint and addPointHistory.
NonPositiveRejected ==
  \A c \in Calls :
    (pc[c] # "idle" /\ args[c].amount <= 0) =>
      /\ repoCalls[c] = <<>>
      /\ pc[c] = "done" => result[c] \in PointErrorMessages

\* ------------------------------------------------------------ C19
\* the operation of call c, of the given type and with an amount that
\* passed validateAmount, has evaluated calculateNewPoint on the balance it
\* read under the lock of its key
Evaluated(c, type) ==
  /\ pc[c] \in {"writing", "recording", "done"}
  /\ args[c].type = type
  /\ args[c].amount > 0
  /\ validateAmount(type, args[c].amount) = OK

\* C19: max-balance rule.  A credit with a valid amount that read balance b
\* under the lock is rejected with the max-exceeded error exactly when
\* b + amount > 10,000,000 (a result of exactly 10,000,000 commits), and a
\* rejected credit has called neither updateUserPoint nor addPointHistory.
MaxBalanceRule ==
  \A c \in Calls :
    Evaluated(c, TransactionType_CHARGE) =>
      LET sum == readPoint[c] + args[c].amount
      IN /\ pc[c] = "done" =>
              ((result[c] = MAX_POINT_EXCEEDED) <=> (sum > 10000000))
         /\ sum > 10000000 => repoCalls[c] = <<"getUserPoint">>
         /\ (pc[c] = "done" /\ sum = 10000000) =>
              (result[c] = OK /\ updatedPoint[c].point = 10000000)

\* a credit that filled its key up to exactly 10,000,000 was committed and
\* the credit queued behind it was rejected
MaxBalanceRuleWitness ==
  \E c, d \in Calls :
    /\ Evaluated(c, TransactionType_CHARGE) /\ pc[c] = "done"
    /\ readPoint[c] + args[c].amount = 10000000 /\ result[c] = OK
    /\ Evaluated(d, TransactionType_CHARGE) /\ pc[d] = "done"
    /\ previousLock[d] = c
    /\ readPoint[d] = 10000000 /\ result[d] = MAX_POINT_EXCEEDED

\* ------------------------------------------------------------ C20
\* C20: sufficient-funds rule.  A debit with a valid amount that read
\* balance b under the lock is rejected with the insufficient-balance error
\* exactly when amount > b; amount = b commits and leaves balance 0, on
\* balance 0 every such debit is rejected, and a rejected debit has called
\* neither updateUserPoint nor addPointHistory.
SufficientFundsRule ==
  \A c \in Calls :
    Evaluated(c, TransactionType_USE) =>
      LET b == readPoint[c]
      IN /\ pc[c] = "done" =>
              ((result[c] = INSUFFICIENT_BALANCE) <=> (args[c].amount > b))
         /\ args[c].amount > b => repoCalls[c] = <<"getUserPoint">>
         /\ (pc[c] = "done" /\ args[c].amount = b) =>
              (result[c] = OK /\ updatedPoint[c].point = 0)
         /\ (pc[c] = "done" /\ b = 0) => result[c] = INSUFFICIENT_BALANCE

\* a debit of the whole balance of its key was committed and left 0
SufficientFundsRuleWitness ==
  \E c \in Calls :
    /\ Evaluated(c, TransactionType_USE) /\ pc[c] = "done"
    /\ readPoint[c] = args[c].amount /\ result[c] = OK
    /\ Quiet(args[c].userId) /\ Balance(args[c].userId) = 0

\* ------------------------------------------------------------ C18
\* C18: an invalid key never reaches the lock or the store.  A call of
\* getPoint, getPointHistories, chargePoint or usePoint with a user id that
\* is no positive integer fails at once: it has completed with an error,
\* has registered no lock and has called no repository method.
InvalidKeyRejected ==
  \A c \in Calls :
    (pc[c] # "idle" /\ args[c].userId \in InvalidKeys) =>
      /\ repoCalls[c] = <<>>
      /\ c \notin Range(admitOrder[args[c].userId])
      /\ ~hasActiveLock(args[c].userId)
      /\ pc[c] = "done"
      /\ result[c] \in PointErrorMessages

\* ------------------------------------------------------------ C21
\* the balance a commit of call c has to write: the balance read plus the
\* amount of a credit, minus the amount of a debit
Expected(c) ==
  IF args[c].type = TransactionType_CHARGE
  THEN readPoint[c] + args[c].amount
  ELSE readPoint[c] - args[c].amount

\* the step of call c in which its balance write completes
BalanceWritten(c) == pc[c] = "writing" /\ pc'[c] = "recording"

\* the step of call c in which its history append completes
HistoryAppended(c) == pc[c] = "recording" /\ pc'[c] = "done"

\* C21: commit computation.  A committing operation writes exactly the
\* balance it read plus (credit) or minus (debit) its amount, appends
\* exactly one history entry, with its key, its amount and its kind, and
\* resolves with the account its balance write returned; nothing else
\* writes the balance store or the history store.
CommitComputation ==
  [][/\ \A c \in Calls :
          /\ BalanceWritten(c) =>
               /\ table'[args[c].userId].point = Expected(c)
               /\ updatedPoint'[c] = table'[args[c].userId]
               /\ history' = history
          /\ HistoryAppended(c) =>
               LET k == args[c].userId
                   row == history'[k][Len(history'[k])]
               IN /\ history' = [history EXCEPT ![k] = Append(@, row)]
                  /\ row.userId = k
                  /\ row.amount = args[c].amount
                  /\ row.type = args[c].type
                  /\ table' = table
                  /\ result'[c] = OK
                  /\ returned'[c] = updatedPoint[c]
                  /\ repoCalls[c] =
                       <<"getUserPoint", "updateUserPoint", "addPointHistory">>
          /\ (pc[c] # "done" /\ pc'[c] = "done" /\ result'[c] = OK)
               => HistoryAppended(c)
     /\ table' # table => \E c \in Calls : BalanceWritten(c)
     /\ history' # history => \E c \in Calls : HistoryAppended(c)]_vars

\* a credit and a debit on one key have both committed
CommitComputationWitness ==
  \E c, d \in Calls :
    /\ pc[c] = "done" /\ pc[d] = "done"
    /\ result[c] = OK /\ result[d] = OK
    /\ args[c].userId = args[d].userId
    /\ args[c].type = TransactionType_CHARGE
    /\ args[d].type = TransactionType_USE
    /\ returned[c].point = readPoint[c] + args[c].amount
    /\ returned[d].point = readPoint[d] - args[d].amount

\* ------------------------------------------------------------ C22
\* call c has committed: its operation resolved
Committed(c) == pc[c] = "done" /\ result[c] = OK

\* the committed calls of key k in the order in which their operations
\* acquired the lock of k
CommittedInLockOrder(k) == SelectSeq(startOrder[k], Committed)

\* C22: ledger order equals lock order.  For every key, in every reachable
\* state, the history entries appended by the calls are those of the
\* committed operations of the key, in the order in which these operations
\* acquired the lock.
LedgerInLockOrder ==
  \A k \in Keys :
    LET cs == CommittedInLockOrder(k)
    IN /\ Len(NewRows(k)) = Len(cs)
       /\ \A i \in DOMAIN cs :
            /\ NewRows(k)[i].type = args[cs[i]].type
            /\ NewRows(k)[i].amount = args[cs[i]].amount
            /\ NewRows(k)[i].timeMillis = returned[cs[i]].updateMillis

\* a debit and then a credit, issued while the first call on their key was
\* still running, have committed behind it; their entries follow in that
\* order
LedgerInLockOrderWitness ==
  \E k \in Keys :
    LET cs == CommittedInLockOrder(k)
    IN /\ Len(cs) = 3
       /\ AllQueuedBehind(admitOrder[k], 1)
       /\ args[cs[2]].type = TransactionType_USE
       /\ args[cs[3]].type = TransactionType_CHARGE
       /\ NewRows(k)[2].type = TransactionType_USE
       /\ NewRows(k)[3].type = TransactionType_CHARGE

\* ------------------------------------------------------------ C23
\* updateMillis of the accounts the balance writes of the committed calls
\* of key k returned, in the order of these writes
WriteTimes(k) ==
  [i \in DOMAIN CommittedInLockOrder(k) |->
     updatedPoint[CommittedInLockOrder(k)[i]].updateMillis]

\* C23: ledger timestamp.  The timestamp of the entry of a committed
\* operation is the updateMillis of the account its own updateUserPoint
\* returned, so the timestamps of the entries of a key are those of its
\* balance writes, in the order of the writes, and none is later than the
\* stored account's.
LedgerTimestamp ==
  \A k \in Keys :
    LET times == [i \in DOMAIN NewRows(k) |-> NewRows(k)[i].timeMillis]
    IN /\ times = WriteTimes(k)
       /\ \A i, j \in DOMAIN times : i < j => times[i] < times[j]
       /\ \A i \in DOMAIN times :
            times[i] <= selectById(table, k).updateMillis

\* two operations of one key have committed, and a third has written the
\* balance but not yet appended its entry
LedgerTimestampWitness ==
  \E k \in Keys : \E c \in KeyCalls(k) :
    /\ Len(WriteTimes(k)) = 2
    /\ pc[c] = "recording"
    /\ updatedPoint[c].updateMillis > WriteTimes(k)[2]

\* ------------------------------------------------------------ C29
\* C29: running operations are not interrupted.  The lock of a call is
\* released only when its operation has ended: committed, with the balance
\* written and the history entry appended, or rejected.  While an operation
\* runs, and in particular between its balance write and its history
\* append, its lock is unreleased and no call admitted after it on its key
\* has started.
NotInterrupted ==
  \A c \in Calls :
    /\ c \in resolved =>
         /\ pc[c] = "done"
         /\ outcome[c] = OK =>
              repoCalls[c] = <<"getUserPoint", "updateUserPoint", "addPointHistory">>
         /\ outcome[c] # OK => outcome[c] \in PointErrorMessages
    /\ InSection(c) =>
         /\ c \notin resolved
         /\ \A d \in KeyCalls(args[c].userId) :
              Pos(d) > Pos(c) => invoked[d] = 0

\* an operation is between its balance write and its history append while
\* two calls are queued behind it
NotInterruptedWitness ==
  \E c, d, e \in Calls :
    /\ pc[c] = "recording"
    /\ pc[d] = "waiting" /\ previousLock[d] = c
    /\ pc[e] = "waiting" /\ previousLock[e] = d

\* ------------------------------------------------------------ C30
\* the operation of call c has read the balance of its key
HasRead(c) ==
  \/ pc[c] \in {"writing", "recording"}
  \/ pc[c] = "done" /\ repoCalls[c] # <<>>

\* the calls of the key of c that committed before c acquired the lock, in
\* lock order
CommittedBefore(c) ==
  LET Before(d) == Committed(d) /\ Pos(d) < Pos(c)
  IN SelectSeq(startOrder[args[c].userId], Before)

\* C30: no stale reads between committers.  Whatever the delays of the
\* store, an operation reads the balance written by the most recent
\* operation that committed before it on its key (the initial balance if
\* there is none), and the write of a committing operation is the next
\* version after the one it read; so no two committed operations of a key
\* computed their balance from the same version.
NoStaleReads ==
  \A c \in Calls :
    (pc[c] # "idle" /\ args[c].userId \in Keys /\ HasRead(c)) =>
      LET k == args[c].userId
          before == CommittedBefore(c)
          last == before[Len(before)]
      IN /\ readPoint[c] =
              IF before = <<>> THEN initPoint[k] ELSE updatedPoint[last].point
         /\ (Len(repoCalls[c]) = 3 /\ before # <<>>) =>
              updatedPoint[c].updateMillis = updatedPoint[last].updateMillis + 1
         /\ \A d \in KeyCalls(k) \ {c} :
              (Committed(c) /\ Committed(d)) =>
                updatedPoint[c].updateMillis # updatedPoint[d].updateMillis

\* three operations of one key have committed, each issued while its
\* predecessor had not yet completed, and each read another balance
NoStaleReadsWitness ==
  \E k \in Keys :
    LET cs == CommittedInLockOrder(k)
    IN /\ Len(cs) = 3
       /\ AllQueuedBehind(admitOrder[k], 1)
       /\ readPoint[cs[2]] = updatedPoint[cs[1]].point
       /\ readPoint[cs[3]] = updatedPoint[cs[2]].point
       /\ readPoint[cs[1]] # readPoint[cs[2]]
       /\ readPoint[cs[2]] # readPoint[cs[3]]

\* ------------------------------------------------------------ C25
\* C25: no deadlock, no starvation.  With every running operation
\* eventually settling (no operation of the service re-acquires its key),
\* every call admitted by acquire eventually has its operation started and
\* eventually completes, however many calls wait on however many keys.
NoStarvation ==
  \A c \in Calls :
    (pc[c] = "waiting") ~> (invoked[c] = 1 /\ pc[c] = "done")

\* every call has been issued and each key in use has a call waiting
\* behind a call that waits itself or runs
NoStarvationWitness ==
  /\ \A c \in Calls : pc[c] # "idle"
  /\ \E c, d, e \in Calls :
       /\ pc[c] = "waiting" /\ previousLock[c] = d
       /\ pc[d] = "waiting" /\ previousLock[d] = e
       /\ InSection(e)

\* ------------------------------------------------------------ C24
\* the repository method whose rejection ended the operation of call c
FailedMethod(c) == repoCalls[c][Len(repoCalls[c])]

\* C24: a store failure does not wedge the key.  When getUserPoint,
\* updateUserPoint or addPointHistory has rejected in the operation of a
\* call, the caller got that same failure, the lock of the call is resolved
\* and no longer registered, the call queued behind it is free to start,
\* and every call of the key admitted after it that has completed had its
\* operation run.
StoreFailureReleases ==
  \A c \in Calls :
    (pc[c] = "done" /\ outcome[c] = STORE_FAILURE) =>
      /\ result[c] = STORE_FAILURE
      /\ c \in resolved
      /\ locks[args[c].userId] # c
      /\ \A d \in Calls :
           (pc[d] = "waiting" /\ previousLock[d] = c) => ENABLED Start(d)
      /\ \A d \in Calls :
           (pc[d] = "done" /\ c \in Earlier(d)) => invoked[d] = 1

\* on one key the write of a call has failed, the call queued behind it has
\* run and committed, and the history append of the call behind that one
\* has failed
StoreFailureReleasesWitness ==
  \E c, d, e \in Calls :
    /\ pc[c] = "done" /\ outcome[c] = STORE_FAILURE
    /\ FailedMethod(c) = "updateUserPoint"
    /\ pc[d] = "done" /\ previousLock[d] = c /\ result[d] = OK
    /\ pc[e] = "done" /\ previousLock[e] = d /\ result[e] = STORE_FAILURE
    /\ FailedMethod(e) = "addPointHistory"

\* ------------------------------------------------------------ C28
\* the operation of call c has called acquire on the key of c and awaits it
Reentered(c) ==
  /\ pc[c] = "nested"
  /\ args[awaits[c]].userId = args[c].userId

\* the calls admitted for the key of c after c, the inner call included
Later(c) ==
  {e \in Calls : /\ pc[e] # "idle"
                 /\ args[e].userId = args[c].userId
                 /\ Pos(e) > Pos(c)}

\* call c has not completed and no call admitted for its key after it has
\* started
Stuck(c) ==
  /\ pc[c] = "nested"
  /\ \A e \in Later(c) : pc[e] = "waiting" /\ invoked[e] = 0

\* call c is a transaction of the service and no call admitted for its key
\* before it is an operation that calls acquire
Unhindered(c) ==
  /\ pc[c] # "idle"
  /\ args[c].type \in TransactionType
  /\ \A e \in Calls :
       (pc[e] # "idle" /\ args[e].userId = args[c].userId /\ Pos(e) < Pos(c))
         => args[e].type \in TransactionType

\* C28: reentrancy deadlocks.  Once an operation running under acquire has
\* called acquire on its own key and awaits it, at no later time has the
\* outer call completed or has the inner call, or any call admitted for
\* that key after the outer one, started; a transaction on a key where no
\* such operation is ahead of it still completes.
ReentrancyDeadlocks ==
  /\ \A c \in Calls : [](Reentered(c) => []Stuck(c))
  /\ \A c \in Calls : (Unhindered(c) /\ pc[c] = "waiting") ~> (pc[c] = "done")

\* an operation has re-acquired its own key and a transaction issued on
\* another key has committed
ReentrancyDeadlocksWitness ==
  \E c, e \in Calls :
    /\ Reentered(c)
    /\ pc[e] = "done" /\ result[e] = OK
    /\ args[e].userId # args[c].userId

\* ------------------------------------------------------------ C26
\* call c is the predecessor some waiting call awaits
Awaited(c) == \E d \in Calls : pc[d] = "waiting" /\ previousLock[d] = c

ExclusiveInOrder(k) ==
  /\ Cardinality({c \in KeyCalls(k) : InSection(c)}) <= 1
  /\ IsPrefix(startOrder[k], admitOrder[k])

\* C27 as stated: independence from single-threaded scheduling.  Mutual
\* exclusion and FIFO hold for every key when getPreviousLock and locks.set,
\* and release and cleanupLockIfNeeded, are separate steps that calls of
\* the same key may interleave.
ThreadedExclusion == \A k \in Keys : ExclusiveInOrder(k)

\* C27 as the code has it: mutual exclusion and FIFO hold for a key as long
\* as no call of the key has run getPreviousLock while another call of the
\* key was between its getPreviousLock and its locks.set; an interleaving
\* between release and cleanupLockIfNeeded does no harm.
SerialAdmissionExclusion ==
  \A k \in Keys \ raced : ExclusiveInOrder(k)

\* on a key whose admissions never overlapped a call was admitted between
\* the release and the cleanup of its predecessor and runs
SerialAdmissionExclusionWitness ==
  \E c, d \in Calls :
    /\ pc[c] = "releasing" /\ previousLock[d] = c /\ InSection(d)
    /\ c \in resolved /\ locks[args[d].userId] = d
    /\ args[d].userId = args[c].userId /\ args[c].userId \notin raced

\* ------------------------------------------------------------ C31
\* the call admitted last for key k
LastAdmitted(k) == admitOrder[k][Len(admitOrder[k])]

\* the registry entry of k, if any, is the lock of the call admitted last
\* for k, and that call has not finished
TailPointer ==
  \A k \in Keys :
    hasActiveLock(k) =>
      /\ admitOrder[k] # <<>>
      /\ locks[k] = LastAdmitted(k)
      /\ pc[locks[k]] # "done"

\* a step in which a call finishes deletes the entry of its key if the call
\* is the one admitted last for the key, and leaves the entry as it is if
\* calls were admitted after it
TailCleanup ==
  \A c \in Calls :
    (pc[c] # "done" /\ pc'[c] = "done") =>
      LET k == args[c].userId
      IN IF c = LastAdmitted(k)
         THEN locks[k] = c /\ locks'[k] = NoLock
         ELSE locks[k] # c /\ locks'[k] = locks[k]

\* C31: tail pointer invariant.  Whenever the registry has an entry for a
\* key, the entry is the lock created by the most recently admitted, not
\* yet finished acquire call of the key; a call that finishes while later
\* calls are queued leaves the entry unchanged, and only the last call of
\* the chain deletes it.
TailPointerInvariant == []TailPointer /\ [][TailCleanup]_vars

\* a call has finished while the call admitted after it was queued, and the
\* entry of the key is still the lock of that later call
TailPointerInvariantWitness ==
  \E c, d \in Calls :
    /\ pc[c] = "done" /\ pc[d] \in {"waiting", "reading", "writing", "recording"}
    /\ previousLock[d] = c
    /\ locks[args[d].userId] = d
    /\ startOrder[args[d].userId] # <<>>

\* ------------------------------------------------------------ C32
\* calls of key k whose addPointHistory failed after their updateUserPoint
\* had succeeded
HistoryFailed(k) ==
  {c \in KeyCalls(k) : /\ pc[c] = "done"
                       /\ outcome[c] = STORE_FAILURE
                       /\ FailedMethod(c) = "addPointHistory"}

RECURSIVE SignedSum(_)
\* sum of the signed amounts of the calls in S
SignedSum(S) ==
  IF S = {} THEN 0
  ELSE LET c == CHOOSE x \in S : TRUE
       IN Signed(c) + SignedSum(S \ {c})

\* C32: no rollback on history failure.  A call whose addPointHistory
\* failed after its updateUserPoint succeeded has failed to its caller and
\* has no history row (none carries the time of its write), and the balance
\* it wrote stays: whenever no operation of the key is between its write and
\* its append, the balance exceeds the sum of the ledger by the signed
\* amounts of exactly these calls.
NoRollback ==
  \A k \in Keys :
    LET rows == selectAllByUserId(history, k)
    IN /\ \A c \in HistoryFailed(k) :
            /\ result[c] = STORE_FAILURE
            /\ \A i \in DOMAIN rows :
                 rows[i].timeMillis # updatedPoint[c].updateMillis
            /\ (locks[k] = NoLock /\ c = LastAdmitted(k)) =>
                 Balance(k) = updatedPoint[c].point
       /\ Unrecorded(k) = {} =>
            Balance(k) = LedgerSum(rows) + SignedSum(HistoryFailed(k))

\* the history append of a debit has failed and a charge admitted after it
\* has committed on top of the balance the debit left
NoRollbackWitness ==
  \E k \in Keys : \E c \in HistoryFailed(k), d \in KeyCalls(k) :
    /\ args[c].type = TransactionType_USE
    /\ previousLock[d] = c /\ pc[d] = "done" /\ result[d] = OK
    /\ readPoint[d] = updatedPoint[c].point
    /\ Balance(k) # LedgerSum(selectAllByUserId(history, k))

\* ------------------------------------------------------------ C33
\* C33: a debit never raises the balance.  For every amount usePoint
\* accepts, zero and negative multiples of USE_UNIT included, the balance
\* the debit writes is at most the balance it read and lies within
\* [0, MAX_POINT].
DebitNeverRaises ==
  \A c \in Calls :
    (pc[c] \in {"recording", "done"} /\ args[c].type = TransactionType_USE
       /\ Len(repoCalls[c]) >= 2) =>
      /\ updatedPoint[c].point <= readPoint[c]
      /\ 0 <= updatedPoint[c].point
      /\ updatedPoint[c].point <= MAX_POINT

\* ------------------------------------------------------------ C34
QueryTypes == {"getPoint", "getPointHistories"}

\* C34: reads are lock-free and effect-free.  A step of a getPoint or
\* getPointHistories call leaves the lock registry, the resolved locks, the
\* admission queues, the balance table and the history as they are, and a
\* call that has issued its query is answered whatever is queued or running
\* on its key.
ReadsLockFree ==
  [][\A c \in Calls :
       args'[c].type \in QueryTypes =>
         /\ pc'[c] # pc[c] =>
              /\ locks' = locks /\ resolved' = resolved
              /\ admitOrder' = admitOrder /\ startOrder' = startOrder
              /\ table' = table /\ history' = history
         /\ previousLock'[c] = NoLock /\ invoked'[c] = 0
         /\ pc[c] = "querying" => ENABLED QueryDone(c)]_vars

\* a getPoint issued while an operation of the key was between its balance
\* write and its history append has returned the balance that operation
\* wrote, and the history has no row for it yet
ReadsLockFreeWitness ==
  \E c, d \in Calls :
    /\ pc[d] = "recording" /\ pc[c] = "done"
    /\ args[c].type = "getPoint" /\ args[c].userId = args[d].userId
    /\ result[c] = updatedPoint[d]
    /\ updatedPoint[d].point # readPoint[d]
    /\ \A i \in DOMAIN history[args[d].userId] :
         history[args[d].userId][i].timeMillis # updatedPoint[d].updateMillis

\* ------------------------------------------------------------ C35
\* C35: clear() preserves exclusion.  With LockManager.clear() called at
\* any time, at most one operation of a key is between its start and its
\* settlement, the operations of a key start in the order of their
\* admission, and the registry has no entry for a key whose calls have all
\* completed.
ClearPreservesExclusion ==
  \A k \in Keys :
    /\ \A c, d \in KeyCalls(k) : (InSection(c) /\ InSection(d)) => c = d
    /\ IsPrefix(startOrder[k], admitOrder[k])
    /\ Quiet(k) => ~hasActiveLock(k)

\* ------------------------------------------------------------ C36
\* a call with a malformed amount that has not been rejected yet holds the
\* registry busy and waits while a call admitted before it on its key has
\* not completed; when it is rejected they all have; and until it is
\* rejected no call admitted after it on its key has started
DoomedWaits ==
  \A c \in Calls :
    Malformed(c) =>
      /\ pc[c] = "waiting" =>
           /\ hasActiveLock(args[c].userId)
           /\ (\E d \in Earlier(c) : pc[d] # "done") => ~ENABLED Start(c)
      /\ pc[c] = "done" =>
           /\ result[c] \in {MAX_CHARGE_EXCEEDED, INVALID_USE_UNIT}
           /\ \A d \in Earlier(c) : pc[d] = "done"
      /\ pc[c] # "done" =>
           \A d \in KeyCalls(args[c].userId) :
             c \in Earlier(d) => (pc[d] = "waiting" /\ invoked[d] = 0)

\* the step in which a call with a malformed amount is issued registers the
\* lock of the call as the entry of its key
DoomedRegisters ==
  \A c \in Calls :
    (pc[c] = "idle" /\ pc'[c] # "idle"
       /\ validateAmount(args'[c].type, args'[c].amount) # OK) =>
      /\ pc'[c] = "waiting"
      /\ locks'[args'[c].userId] = c
      /\ previousLock'[c] = locks[args'[c].userId]

\* C36: doomed requests are serialized.  A credit above the cap or a debit
\* that is no multiple of 100 registers a registry entry when it is
\* submitted, is rejected only after all earlier operations of its key have
\* settled, and delays every operation admitted after it on its key until
\* its rejection.
DoomedSerialized == []DoomedWaits /\ [][DoomedRegisters]_vars

\* a charge above the cap waits behind a running operation of its key, and
\* a well-formed debit admitted after it waits behind it
DoomedSerializedWitness ==
  \E c, d, e \in Calls :
    /\ Malformed(c) /\ pc[c] = "waiting"
    /\ args[c].type = TransactionType_CHARGE
    /\ previousLock[c] = e /\ InSection(e)
    /\ pc[d] = "waiting" /\ previousLock[d] = c /\ ~Malformed(d)

\* ------------------------------------------------------------ C37
\* a step of the operation of call c in the template-method PointService
TemplateStep(c) == Start(c) \/ ReadDone(c) \/ WriteDone(c) \/ RecordDone(c)

\* a step of the operation of call c in the inlined PointService, whose
\* updatePointWithHistory is the same method
InlinedStep(c) ==
  StartInlined(c) \/ ReadDoneInlined(c) \/ WriteDone(c) \/ RecordDone(c)

\* C37: service refactoring equivalence.  For every key, kind, amount and
\* balance, every step an operation takes in the template-method service
\* is the step it takes in the inlined service, and in no state can the
\* inlined service take a step the template-method service cannot take:
\* the calls of the lock, of the validators and of the repository, the
\* result or error, the balance and the history are the same.
ServiceRefactoring ==
  /\ [][\A c \in Calls : TemplateStep(c) <=> InlinedStep(c)]_vars
  /\ [](\A c \in Calls : ~ENABLED (InlinedStep(c) /\ ~TemplateStep(c)))

\* a charge has committed, a debit above the balance was rejected after the
\* read, and a charge above the cap before it
ServiceRefactoringWitness ==
  \E c, d \in Calls :
    /\ pc[c] = "done" /\ pc[d] = "done"
    /\ result[c] = OK /\ args[c].type = TransactionType_CHARGE
    /\ result[d] = INSUFFICIENT_BALANCE
    /\ \E e \in Calls : pc[e] = "done" /\ result[e] = MAX_CHARGE_EXCEEDED

\* ------------------------------------------------------------ C38
\* call c is admitted by the helper-based acquire
AdmitAny(c) ==
  \E k \in Keys, t \in TransactionType, a \in ChargeAmounts \cup UseAmounts :
    Admit(c, k, t, a)

\* call c is admitted by the inlined acquire
AdmitInlinedAny(c) ==
  \E k \in Keys, t \in TransactionType, a \in ChargeAmounts \cup UseAmounts :
    AdmitInlined(c, k, t, a)

\* C38: lock manager refactoring equivalence.  Every admission and every
\* start of an operation under the helper-based acquire is the step the
\* inlined acquire takes, a step in which a call finishes releases the lock
\* and leaves the registry as the finally block of the inlined acquire
\* does, and in no state can the inlined acquire admit or start a call in a
\* way the helper-based acquire cannot.
LockRefactoring ==
  /\ [][\A c \in Calls :
          /\ AdmitAny(c) <=> AdmitInlinedAny(c)
          /\ Start(c) <=> StartAcquireInlined(c)
          /\ (pc[c] # "done" /\ pc'[c] = "done") => FinallyInlined(c)
          /\ (pc'[c] = pc[c] \/ pc'[c] # "done") =>
               (c \in resolved' <=> c \in resolved)]_vars
  /\ [](\A c \in Calls :
          /\ ~ENABLED (AdmitInlinedAny(c) /\ ~AdmitAny(c))
          /\ ~ENABLED (StartAcquireInlined(c) /\ ~Start(c)))

\* three calls were admitted for one key: the first has finished and left
\* the entry of the key, the second runs, and the entry is the lock of the
\* third, which waits for the second
LockRefactoringWitness ==
  \E k \in Keys :
    /\ Len(admitOrder[k]) = 3
    /\ pc[admitOrder[k][1]] = "done"
    /\ InSection(admitOrder[k][2])
    /\ pc[admitOrder[k][3]] = "waiting"
    /\ previousLock[admitOrder[k][3]] = admitOrder[k][2]
    /\ locks[k] = admitOrder[k][3]
    /\ resolved = {admitOrder[k][1]}

====
